---- MODULE Spec2Model ----
(***************************************************************************)
(* The CSkia binding shim (Sources/CSkia/utils.cpp, utils.h): the engine   *)
(* objects it creates, the references that keep them alive, the handles it *)
(* gives its caller, and the two process-wide globals fontMgr and          *)
(* fontCollection1.                                                        *)
(*                                                                         *)
(* An engine object lives at an address of the heap.  A reference-counted  *)
(* object (held through sk_sp) has rc >= 1 while alive; an object held     *)
(* through std::unique_ptr or by value has rc = 0 and one owner.  Addresses*)
(* are never reused, so a stale handle stays recognisable.                 *)
(***************************************************************************)
EXTENDS Integers, FiniteSets, Sequences, TLC

\* ------------------------------------------------------------- bounds
MaxObj == 3      \* objects the caller has the shim create in one run
MaxText == 1     \* code units of text added to one builder
MaxStyles == 1   \* depth of a builder's style stack
MaxLines == 2    \* lines a layout produces
MaxLen == 1      \* length of a byte buffer given to a decoder
MaxPar == 2      \* builders and paragraphs created in a run of the paragraph side

\* ------------------------------------------------------------- addresses
Null == 0
FontMgrAddr == 1          \* the object the initializer of fontMgr creates
FontCollection1Addr == 2  \* the object the initializer of fontCollection1 creates
SurfaceAddr == 3          \* a surface the caller made through the engine's own API
NAddr == SurfaceAddr + MaxObj
Addr == 1..NAddr

VARIABLES
  heap,             \* Addr -> object
  nobj,             \* addresses handed out so far
  liveData,         \* SkData buffers alive (copies of caller bytes)
  fontMgr,          \* the global sk_sp<SkFontMgr>
  fontCollection1,  \* the global sk_sp<FontCollection>
  caller,           \* Addr -> what the caller holds for the object
  last,             \* the shim call that led to this state
  ub,               \* the contract violation the caller has committed, if any
  mt,               \* the caller's threads inside paragraph_builder_new
  mac,              \* macOS: the font provider RegisterSystemFonts fills
  cf                \* macOS: CFRef wrappers and the objects they refer to

vars == <<heap, nobj, liveData, fontMgr, fontCollection1, caller, last, ub, mt,
          mac, cf>>

\* ------------------------------------------------------------- objects
\* holds: the one counted reference the object keeps (a FontCollection its
\* default font manager, a builder or paragraph its font collection, an SkFont
\* or text blob its typeface).  data: it owns an SkData buffer.
NoObject ==
  [kind |-> "none", alive |-> FALSE, rc |-> 0, holds |-> Null,
   text |-> 0, styles |-> 0, lines |-> 0, laidOut |-> FALSE, data |-> 0]

Object(kind, rc, holds) ==
  [NoObject EXCEPT !.kind = kind, !.alive = TRUE, !.rc = rc, !.holds = holds]

Live(h) == Cardinality({a \in Addr : h[a].alive})

\* sk_sp<T> copy construction: SkSafeRef.
Ref(h, a) == IF a = Null THEN h ELSE [h EXCEPT ![a].rc = @ + 1]

RECURSIVE Unref(_, _)
RECURSIVE Destroy(_, _)

\* The destructor of the object at a: it dies and gives up the reference it holds.
Destroy(h, a) ==
  LET h1 == [h EXCEPT ![a].alive = FALSE, ![a].rc = 0]
  IN IF h[a].holds = Null THEN h1 ELSE Unref(h1, h[a].holds)

\* sk_sp<T> destruction / SkSafeUnref: the last reference destroys the object.
Unref(h, a) ==
  IF a = Null THEN h
  ELSE IF h[a].rc > 1 THEN [h EXCEPT ![a].rc = @ - 1]
  ELSE Destroy(h, a)

\* SkData buffers freed between two heaps: those of the objects that died.
FreedData(h, h2) ==
  Cardinality({a \in Addr : h[a].alive /\ ~h2[a].alive /\ h[a].data = 1})

\* operator new: the next unused address.
Alloc(h, n, obj) == [h EXCEPT ![n + 1] = obj]

\* ------------------------------------------------------------- smart pointers
\* Variant: get() in place of release(): the unique_ptr keeps the object.
UniquePtrGet(p) == [raw |-> p, left |-> p]

\* std::unique_ptr<T>::release(): the raw pointer, and the unique_ptr left empty.
UniquePtrRelease(p) == [raw |-> p, left |-> Null]

\* The end of a scope that holds a std::unique_ptr: what it still owns is deleted.
UniquePtrScopeExit(h, p) == IF p = Null THEN h ELSE Destroy(h, p)

\* An sk_sp local returned by value is moved out: the local is left empty.
SkSpReturn(p) == [ret |-> p, left |-> Null]

\* Variant: an sk_sp made from the raw pointer, sk_sp<T>(p.get()): no reference
\* is added for it.
SkSpAdopt(h, a) == h

\* An sk_sp argument passed by value from an lvalue: a copy, one more reference.
SkSpCopy(h, a) == Ref(h, a)

\* ------------------------------------------------------------- engine calls
\* FontCollection::setDefaultFontManager(sk_sp<SkFontMgr>): the argument is a
\* copy of the caller's sk_sp (one more reference), move-assigned to the field;
\* the reference the field held before is dropped.
SetDefaultFontManager(h, c, m) ==
  LET h1 == Ref(h, m)
      old == h1[c].holds
      h2 == [h1 EXCEPT ![c].holds = m]
  IN Unref(h2, old)

\* ParagraphBuilder::make(style, sk_sp<FontCollection>): a std::unique_ptr to a
\* new builder that keeps the sk_sp it was given, or an empty one, the sk_sp
\* dropped.
ParagraphBuilderMake(h, n, c, ok) ==
  IF ok THEN [heap |-> Alloc(h, n, Object("ParagraphBuilder", 0, c)),
              ptr |-> n + 1, nobj |-> n + 1]
        ELSE [heap |-> Unref(h, c), ptr |-> Null, nobj |-> n]

\* ParagraphBuilder::Build(): a std::unique_ptr to a new paragraph holding the
\* builder's text and its own reference to the builder's collection.
ParagraphBuilderBuild(h, n, b, ok) ==
  IF ok THEN [heap |-> Alloc(Ref(h, h[b].holds), n,
                             [Object("Paragraph", 0, h[b].holds)
                                EXCEPT !.text = h[b].text]),
              ptr |-> n + 1, nobj |-> n + 1]
        ELSE [heap |-> h, ptr |-> Null, nobj |-> n]

\* ParagraphBuilder::addText, pushStyle, pop: the builder's text grows, its
\* style stack grows or shrinks; pop on an empty stack does nothing.
AddText(h, b) == [h EXCEPT ![b].text = @ + 1]
PushStyle(h, b) == [h EXCEPT ![b].styles = @ + 1]
Pop(h, b) == [h EXCEPT ![b].styles = IF @ > 0 THEN @ - 1 ELSE 0]

\* Paragraph::layout(width): the engine breaks the text into n lines.
Layout(h, p, n) == [h EXCEPT ![p].lines = n, ![p].laidOut = TRUE]

\* The line counts a layout of a paragraph may produce.
LineCounts(h, p) == IF h[p].text = 0 THEN 0..1 ELSE 1..MaxLines

\* Paragraph::paint(canvas, x, y): draws; neither object keeps the other.
Paint(h, p, s) == h

\* LineMetrics: a default-constructed one, and the one the engine writes for
\* line n of a paragraph (its ascent computed, its line number n).
DefaultLineMetrics == [fLineNumber |-> 0, fAscent |-> "SK_ScalarMax"]
LineMetricsOf(n) == [fLineNumber |-> n, fAscent |-> "computed"]

\* Paragraph::getLineMetricsAt(lineNumber, &metrics): false, and metrics left
\* alone, when there is no such line.
GetLineMetricsAt(h, p, n, metrics) ==
  IF n < h[p].lines THEN [ok |-> TRUE, metrics |-> LineMetricsOf(n)]
                    ELSE [ok |-> FALSE, metrics |-> metrics]

\* Paragraph::getLineNumberAt(codeUnitIndex): the line, or -1.
LineNumbersAt(h, p, i) ==
  IF h[p].laidOut /\ i < h[p].text /\ h[p].lines > 0
    THEN 0..(h[p].lines - 1) ELSE {-1}

\* Paragraph::getGlyphInfoAtUTF16Offset(codeUnitIndex, glyphInfo).
GetGlyphInfoAt(h, p, i) == h[p].laidOut /\ i < h[p].text

\* A GlyphInfo, by the grapheme cluster it describes.  One that was never
\* written (Paragraph::GlyphInfo info;) holds any of these values.
GlyphInfos == 0..MaxText

\* Paragraph::getClosestUTF16GlyphInfoAt(dx, dy, &info): false, and info left
\* alone, when the paragraph has no glyph; else the closest glyph's info.
ClosestGlyphInfos(h, p) ==
  IF h[p].laidOut /\ h[p].text > 0 THEN 0..(h[p].text - 1) ELSE {}

\* Paragraph::getGlyphPositionAtCoordinate(dx, dy): a position in the text.
GlyphPositions(h, p) == 0..h[p].text

\* SkData::MakeWithCopy(data, length): a buffer holding a copy of the bytes;
\* for length 0 the shared empty SkData, which allocates nothing.
MakeWithCopy(length) == IF length = 0 THEN 0 ELSE 1

\* SkFontMgr::makeFromData / SkAndroidCodec::MakeFromData + SkAnimatedImage::Make:
\* a new object that keeps the buffer, or null with the buffer freed.
MakeFromData(h, n, kind, bytes, decodable) ==
  IF decodable
    THEN [heap |-> Alloc(h, n, [Object(kind, 1, Null) EXCEPT !.data = bytes]),
          ptr |-> n + 1, nobj |-> n + 1, freed |-> 0]
    ELSE [heap |-> h, ptr |-> Null, nobj |-> n, freed |-> bytes]

\* SkColorSpace::MakeSRGB(): a new reference to the engine's one sRGB object,
\* which the engine creates on first use and keeps for the process.
SRGBSingleton(h) ==
  IF \E a \in Addr : h[a].kind = "SkColorSpace"
    THEN CHOOSE a \in Addr : h[a].kind = "SkColorSpace" ELSE Null

MakeSRGB(h, n) ==
  LET a == SRGBSingleton(h)
  IN IF a = Null
       THEN [heap |-> Ref(Alloc(h, n, Object("SkColorSpace", 1, Null)), n + 1),
             ptr |-> n + 1, nobj |-> n + 1]
       ELSE [heap |-> Ref(h, a), ptr |-> a, nobj |-> n]

\* An engine factory that returns an sk_sp to a new object, or null.
MakeCounted(h, n, kind, holds, ok) ==
  IF ok THEN [heap |-> Alloc(Ref(h, holds), n, Object(kind, 1, holds)),
              ptr |-> n + 1, nobj |-> n + 1]
        ELSE [heap |-> h, ptr |-> Null, nobj |-> n]

\* SkFont(sk_sp<SkTypeface>, size): the font keeps the sk_sp it is given.
SkFontNew(h, n, typeface) ==
  [heap |-> Alloc(h, n, Object("SkFont", 0, typeface)), ptr |-> n + 1,
   nobj |-> n + 1]

\* SkCanvas::drawImage / drawImageRect / drawImageNine / drawTextBlob on the
\* caller's canvas: drawn at once, nothing kept.
Draw(h, s, a) == h

\* ------------------------------------------------------------- the shim
\* Variant: line 26 in force: a font collection of the call's own.
BuilderCollectionLocal(h, n) ==
  [heap |-> Alloc(h, n, Object("FontCollection", 1, Null)), fc |-> n + 1,
   nobj |-> n + 1]

\* The font collection paragraph_builder_new hands the engine.
BuilderCollection(h, n) == [heap |-> h, fc |-> fontCollection1, nobj |-> n]

paragraph_builder_new_impl(h, n, ok) ==
  LET c == BuilderCollection(h, n)
      h1 == SetDefaultFontManager(c.heap, c.fc, fontMgr)
      result == ParagraphBuilderMake(SkSpCopy(h1, c.fc), c.nobj, c.fc, ok)
      result2 == UniquePtrRelease(result.ptr)
  IN [heap |-> UniquePtrScopeExit(result.heap, result2.left),
      ret |-> result2.raw, nobj |-> result.nobj]

paragraph_builder_build_impl(h, n, b, ok) ==
  LET built == ParagraphBuilderBuild(h, n, b, ok)
      r == UniquePtrRelease(built.ptr)
  IN [heap |-> UniquePtrScopeExit(built.heap, r.left),
      ret |-> r.raw, nobj |-> built.nobj]

\* Variant: the new collection is returned without a default font manager.
sk_fontcollection_new_bare(h, n) ==
  [heap |-> Alloc(h, n, Object("FontCollection", 1, Null)), ret |-> n + 1,
   nobj |-> n + 1]

sk_fontcollection_new_impl(h, n) ==
  LET h1 == Alloc(h, n, Object("FontCollection", 1, Null))
      collection == n + 1
      h2 == SetDefaultFontManager(h1, collection, fontMgr)
      r == SkSpReturn(collection)
  IN [heap |-> Unref(h2, r.left), ret |-> r.ret, nobj |-> n + 1]

\* bytes is copied into the engine call and the local dropped at the end.
sk_typeface_create_from_data_impl(h, n, length, decodable) ==
  LET bytes == MakeWithCopy(length)
      made == MakeFromData(h, n, "SkTypeface", bytes, decodable)
  IN [heap |-> made.heap, ret |-> made.ptr, nobj |-> made.nobj,
      allocs |-> bytes, data |-> bytes - made.freed]

\* Variant: a reference to bytes is kept past the call, so the copy is never
\* freed.
sk_animated_image_create_keeps_bytes(h, n, length, decodable) ==
  LET bytes == MakeWithCopy(length)
      made == MakeFromData(h, n, "SkAnimatedImage", bytes, decodable)
  IN [heap |-> made.heap, ret |-> made.ptr, nobj |-> made.nobj,
      allocs |-> bytes, data |-> bytes]

sk_animated_image_create_impl(h, n, length, decodable) ==
  LET bytes == MakeWithCopy(length)
      made == MakeFromData(h, n, "SkAnimatedImage", bytes, decodable)
  IN [heap |-> made.heap, ret |-> made.ptr, nobj |-> made.nobj,
      allocs |-> bytes, data |-> bytes - made.freed]

sk_font_new_impl(h, n, typeface) ==
  SkFontNew(SkSpCopy(h, typeface), n, typeface)

\* Variant: the draw call takes a reference to what it draws and keeps it.
sk_canvas_draw_keeps(h, s, a) == Ref(Draw(h, s, a), a)

\* What a draw call hands the canvas: image.get(), blob.get(), or the sk_sp by
\* const reference; no copy of the sk_sp is made.
sk_canvas_draw_impl(h, s, a) == Draw(h, s, a)

\* Variant: the release operation deletes nothing.
DefaultDeleteNothing(h, p) == h

\* std::default_delete<T>()(p): delete p.
DefaultDelete(h, p) == Destroy(h, p)

\* Variant: paragraph_paint takes the paragraph over and deletes it when done.
paragraph_paint_consumes(h, p, s) == Destroy(Paint(h, p, s), p)

\* paragraph->paint(canvas, x, y) on the borrowed pointers.
paragraph_paint_impl(h, p, s) == Paint(h, p, s)

\* ------------------------------------------------------------- calls
Call(op, arg, ret, ok) ==
  [op |-> op, arg |-> arg, ret |-> ret, ok |-> ok,
   rc0 |-> 0, live0 |-> 0, allocs |-> 0]

Running == ub = "none"
Usable(a, kind) == heap[a].kind = kind /\ caller[a] \in {"raw", "sp", "val"}
Give(a, how) == IF a = Null THEN caller ELSE [caller EXCEPT ![a] = how]

paragraph_builder_new ==
  /\ Running
  /\ nobj < NAddr
  /\ \E ok \in BOOLEAN :
       LET r == paragraph_builder_new_impl(heap, nobj, ok)
       IN /\ heap' = r.heap
          /\ nobj' = r.nobj
          /\ caller' = Give(r.ret, "raw")
          /\ last' = [Call("paragraph_builder_new", Null, r.ret, ok)
                        EXCEPT !.live0 = Live(heap) + liveData]
  /\ UNCHANGED <<mac, cf, liveData, fontMgr, fontCollection1, ub, mt>>

paragraph_builder_build ==
  /\ Running
  /\ nobj < NAddr
  /\ \E b \in Addr, ok \in BOOLEAN :
       /\ Usable(b, "ParagraphBuilder")
       /\ LET r == paragraph_builder_build_impl(heap, nobj, b, ok)
          IN /\ heap' = r.heap
             /\ nobj' = r.nobj
             /\ caller' = Give(r.ret, "raw")
             /\ last' = [Call("paragraph_builder_build", b, r.ret, ok)
                           EXCEPT !.live0 = Live(heap) + liveData]
  /\ UNCHANGED <<mac, cf, liveData, fontMgr, fontCollection1, ub, mt>>

paragraph_builder_unref ==
  /\ Running
  /\ \E b \in Addr :
       /\ Usable(b, "ParagraphBuilder")
       /\ heap' = DefaultDelete(heap, b)
       /\ caller' = [caller EXCEPT ![b] = "released"]
       /\ last' = Call("paragraph_builder_unref", b, Null, TRUE)
  /\ UNCHANGED <<mac, cf, nobj, liveData, fontMgr, fontCollection1, ub, mt>>

paragraph_unref ==
  /\ Running
  /\ \E p \in Addr :
       /\ Usable(p, "Paragraph")
       /\ heap' = DefaultDelete(heap, p)
       /\ caller' = [caller EXCEPT ![p] = "released"]
       /\ last' = Call("paragraph_unref", p, Null, TRUE)
  /\ UNCHANGED <<mac, cf, nobj, liveData, fontMgr, fontCollection1, ub, mt>>

\* ------------------------------------------------------------- borrow-only calls
paragraph_builder_add_text ==
  /\ Running
  /\ \E b \in Addr :
       /\ Usable(b, "ParagraphBuilder")
       /\ heap[b].text < MaxText
       /\ heap' = AddText(heap, b)
       /\ last' = Call("paragraph_builder_add_text", b, Null, TRUE)
  /\ UNCHANGED <<mac, cf, nobj, liveData, fontMgr, fontCollection1, caller, ub, mt>>

paragraph_builder_push_style ==
  /\ Running
  /\ \E b \in Addr :
       /\ Usable(b, "ParagraphBuilder")
       /\ heap[b].styles < MaxStyles
       /\ heap' = PushStyle(heap, b)
       /\ last' = Call("paragraph_builder_push_style", b, Null, TRUE)
  /\ UNCHANGED <<mac, cf, nobj, liveData, fontMgr, fontCollection1, caller, ub, mt>>

paragraph_builder_pop ==
  /\ Running
  /\ \E b \in Addr :
       /\ Usable(b, "ParagraphBuilder")
       /\ heap' = Pop(heap, b)
       /\ last' = Call("paragraph_builder_pop", b, Null, TRUE)
  /\ UNCHANGED <<mac, cf, nobj, liveData, fontMgr, fontCollection1, caller, ub, mt>>

paragraph_layout ==
  /\ Running
  /\ \E p \in Addr :
       /\ Usable(p, "Paragraph")
       /\ \E n \in LineCounts(heap, p) : heap' = Layout(heap, p, n)
       /\ last' = Call("paragraph_layout", p, Null, TRUE)
  /\ UNCHANGED <<mac, cf, nobj, liveData, fontMgr, fontCollection1, caller, ub, mt>>

paragraph_paint ==
  /\ Running
  /\ \E p \in Addr, s \in Addr :
       /\ Usable(p, "Paragraph")
       /\ Usable(s, "SkSurface")
       /\ heap' = paragraph_paint_impl(heap, p, s)
       /\ last' = [Call("paragraph_paint", p, Null, TRUE) EXCEPT !.rc0 = heap[s].rc]
  /\ UNCHANGED <<mac, cf, nobj, liveData, fontMgr, fontCollection1, caller, ub, mt>>

\* ------------------------------------------------------------- queries
paragraph_get_line_metrics_at ==
  /\ Running
  /\ \E p \in Addr, lineNumber \in 0..MaxLines :
       /\ Usable(p, "Paragraph")
       /\ LET r == GetLineMetricsAt(heap, p, lineNumber, DefaultLineMetrics)
          IN last' = Call("paragraph_get_line_metrics_at", p, r.metrics, r.ok)
  /\ UNCHANGED <<mac, cf, heap, nobj, liveData, fontMgr, fontCollection1, caller, ub, mt>>

paragraph_get_line_number_at ==
  /\ Running
  /\ \E p \in Addr, codeUnitIndex \in 0..MaxText :
       /\ Usable(p, "Paragraph")
       /\ \E n \in LineNumbersAt(heap, p, codeUnitIndex) :
            last' = Call("paragraph_get_line_number_at", p, n, n >= 0)
  /\ UNCHANGED <<mac, cf, heap, nobj, liveData, fontMgr, fontCollection1, caller, ub, mt>>

paragraph_get_glyph_info_at ==
  /\ Running
  /\ \E p \in Addr, codeUnitIndex \in 0..MaxText :
       /\ Usable(p, "Paragraph")
       /\ LET ok == GetGlyphInfoAt(heap, p, codeUnitIndex)
          IN last' = Call("paragraph_get_glyph_info_at", p, ok, ok)
  /\ UNCHANGED <<mac, cf, heap, nobj, liveData, fontMgr, fontCollection1, caller, ub, mt>>

\* The engine's result is dropped and info returned: on failure it was never
\* written, so the caller reads whatever the stack held.
paragraph_get_closest_glyph_info_at ==
  /\ Running
  /\ \E p \in Addr :
       /\ Usable(p, "Paragraph")
       /\ LET found == ClosestGlyphInfos(heap, p)
          IN \E info \in (IF found = {} THEN GlyphInfos ELSE found) :
               last' = Call("paragraph_get_closest_glyph_info_at", p, info,
                            found # {})
  /\ UNCHANGED <<mac, cf, heap, nobj, liveData, fontMgr, fontCollection1, caller, ub, mt>>

paragraph_get_glyph_position_at_coordinate ==
  /\ Running
  /\ \E p \in Addr :
       /\ Usable(p, "Paragraph")
       /\ \E position \in GlyphPositions(heap, p) :
            last' = Call("paragraph_get_glyph_position_at_coordinate", p,
                         position, TRUE)
  /\ UNCHANGED <<mac, cf, heap, nobj, liveData, fontMgr, fontCollection1, caller, ub, mt>>

\* ------------------------------------------------------------- sk_sp factories
Decodable(length) == IF length = 0 THEN {FALSE} ELSE BOOLEAN

sk_fontcollection_new ==
  /\ Running
  /\ nobj < NAddr
  /\ LET r == sk_fontcollection_new_impl(heap, nobj)
     IN /\ heap' = r.heap
        /\ nobj' = r.nobj
        /\ caller' = Give(r.ret, "sp")
        /\ last' = [Call("sk_fontcollection_new", Null, r.ret, TRUE)
                      EXCEPT !.live0 = Live(heap) + liveData]
  /\ UNCHANGED <<mac, cf, liveData, fontMgr, fontCollection1, ub, mt>>

sk_typeface_create_from_data ==
  /\ Running
  /\ nobj < NAddr
  /\ \E collection \in Addr, length \in 0..MaxLen :
       /\ Usable(collection, "FontCollection")
       /\ \E decodable \in Decodable(length) :
            LET r == sk_typeface_create_from_data_impl(heap, nobj, length, decodable)
            IN /\ heap' = r.heap
               /\ nobj' = r.nobj
               /\ liveData' = liveData + r.data
               /\ caller' = Give(r.ret, "sp")
               /\ last' = [Call("sk_typeface_create_from_data", collection,
                                r.ret, decodable)
                             EXCEPT !.live0 = Live(heap) + liveData,
                                    !.allocs = r.allocs,
                                    !.rc0 = heap[collection].rc]
  /\ UNCHANGED <<mac, cf, fontMgr, fontCollection1, ub, mt>>

sk_animated_image_create ==
  /\ Running
  /\ nobj < NAddr
  /\ \E length \in 0..MaxLen :
       \E decodable \in Decodable(length) :
         LET r == sk_animated_image_create_impl(heap, nobj, length, decodable)
         IN /\ heap' = r.heap
            /\ nobj' = r.nobj
            /\ liveData' = liveData + r.data
            /\ caller' = Give(r.ret, "sp")
            /\ last' = [Call("sk_animated_image_create", Null, r.ret, decodable)
                          EXCEPT !.live0 = Live(heap) + liveData,
                                 !.allocs = r.allocs]
  /\ UNCHANGED <<mac, cf, fontMgr, fontCollection1, ub, mt>>

sk_animated_image_get_current_frame ==
  /\ Running
  /\ nobj < NAddr
  /\ \E image \in Addr, ok \in BOOLEAN :
       /\ Usable(image, "SkAnimatedImage")
       /\ LET r == MakeCounted(heap, nobj, "SkImage", Null, ok)
          IN /\ heap' = r.heap
             /\ nobj' = r.nobj
             /\ caller' = Give(r.ptr, "sp")
             /\ last' = [Call("sk_animated_image_get_current_frame", image,
                              r.ptr, ok)
                           EXCEPT !.rc0 = heap[image].rc]
  /\ UNCHANGED <<mac, cf, liveData, fontMgr, fontCollection1, ub, mt>>

gr_direct_context_make_gl ==
  /\ Running
  /\ nobj < NAddr
  /\ \E ok \in BOOLEAN :
       LET r == MakeCounted(heap, nobj, "GrDirectContext", Null, ok)
       IN /\ heap' = r.heap
          /\ nobj' = r.nobj
          /\ caller' = Give(r.ptr, "sp")
          /\ last' = [Call("gr_direct_context_make_gl", Null, r.ptr, ok)
                        EXCEPT !.live0 = Live(heap) + liveData]
  /\ UNCHANGED <<mac, cf, liveData, fontMgr, fontCollection1, ub, mt>>

\* The caller keeps at most one sk_sp to an object.
color_space_new_srgb ==
  /\ Running
  /\ LET a == SRGBSingleton(heap)
     IN IF a = Null THEN nobj < NAddr ELSE caller[a] # "sp"
  /\ LET r == MakeSRGB(heap, nobj)
     IN /\ heap' = r.heap
        /\ nobj' = r.nobj
        /\ caller' = Give(r.ptr, "sp")
        /\ last' = [Call("color_space_new_srgb", Null, r.ptr, TRUE)
                      EXCEPT !.live0 = Live(heap) + liveData]
  /\ UNCHANGED <<mac, cf, liveData, fontMgr, fontCollection1, ub, mt>>

sk_font_new ==
  /\ Running
  /\ nobj < NAddr
  /\ \E typeface \in Addr :
       /\ Usable(typeface, "SkTypeface")
       /\ LET r == sk_font_new_impl(heap, nobj, typeface)
          IN /\ heap' = r.heap
             /\ nobj' = r.nobj
             /\ caller' = Give(r.ptr, "val")
             /\ last' = [Call("sk_font_new", typeface, r.ptr, TRUE)
                           EXCEPT !.rc0 = heap[typeface].rc]
  /\ UNCHANGED <<mac, cf, liveData, fontMgr, fontCollection1, ub, mt>>

\* The blob keeps a copy of the font, and with it a reference to its typeface.
\* font is one sk_font_new returned, or (Null) an SkFont the caller constructed
\* itself, which has no typeface.
sk_text_blob_make_from_glyphs ==
  /\ Running
  /\ nobj < NAddr
  /\ \E font \in Addr \cup {Null}, length \in 0..MaxLen :
       /\ font # Null => Usable(font, "SkFont")
       /\ LET r == MakeCounted(heap, nobj, "SkTextBlob",
                               IF font = Null THEN Null ELSE heap[font].holds,
                               length > 0)
          IN /\ heap' = r.heap
             /\ nobj' = r.nobj
             /\ caller' = Give(r.ptr, "sp")
             /\ last' = Call("sk_text_blob_make_from_glyphs", font, r.ptr,
                             length > 0)
  /\ UNCHANGED <<mac, cf, liveData, fontMgr, fontCollection1, ub, mt>>

\* ------------------------------------------------------------- accessors
\* Variant: the accessor takes a reference for the pointer it returns.
SkSpGetRef(h, a) == [heap |-> Ref(h, a), ptr |-> a]

\* sk_sp<T>::get(), and getCanvas(): the raw pointer, the count left alone.
SkSpGet(h, a) == [heap |-> h, ptr |-> a]

\* surface->getCanvas(): the canvas the surface owns, which lives in the
\* surface and goes with it; it is named by the surface's address.
sk_surface_get_canvas ==
  /\ Running
  /\ \E surface \in Addr :
       /\ Usable(surface, "SkSurface")
       /\ LET r == SkSpGet(heap, surface)
          IN /\ heap' = r.heap
             /\ last' = [Call("sk_surface_get_canvas", surface, r.ptr, TRUE)
                           EXCEPT !.rc0 = heap[surface].rc]
  /\ UNCHANGED <<mac, cf, nobj, liveData, fontMgr, fontCollection1, caller, ub, mt>>

\* context.get()
gr_direct_context_unwrap ==
  /\ Running
  /\ \E context \in Addr :
       /\ Usable(context, "GrDirectContext")
       /\ LET r == SkSpGet(heap, context)
          IN /\ heap' = r.heap
             /\ last' = [Call("gr_direct_context_unwrap", context, r.ptr, TRUE)
                           EXCEPT !.rc0 = heap[context].rc]
  /\ UNCHANGED <<mac, cf, nobj, liveData, fontMgr, fontCollection1, caller, ub, mt>>

\* ------------------------------------------------------------- draw calls
DrawCall(op, kind) ==
  /\ Running
  /\ \E s \in Addr, a \in Addr :
       /\ Usable(s, "SkSurface")
       /\ Usable(a, kind)
       /\ heap' = sk_canvas_draw_impl(heap, s, a)
       /\ last' = [Call(op, a, Null, TRUE) EXCEPT !.rc0 = heap[a].rc]
  /\ UNCHANGED <<mac, cf, nobj, liveData, fontMgr, fontCollection1, caller, ub, mt>>

sk_canvas_draw_image == DrawCall("sk_canvas_draw_image", "SkImage")
sk_canvas_draw_image_rect == DrawCall("sk_canvas_draw_image_rect", "SkImage")
sk_canvas_draw_image_nine == DrawCall("sk_canvas_draw_image_nine", "SkImage")
sk_canvas_draw_text_blob == DrawCall("sk_canvas_draw_text_blob", "SkTextBlob")

\* ------------------------------------------------------------- the caller's side
\* The caller's sk_sp<T> goes out of scope: ~sk_sp, SkSafeUnref.
sk_sp_drop ==
  /\ Running
  /\ \E a \in Addr :
       /\ caller[a] = "sp"
       /\ heap' = Unref(heap, a)
       /\ liveData' = liveData - FreedData(heap, heap')
       /\ caller' = [caller EXCEPT ![a] = "dropped"]
       /\ last' = Call("sk_sp_drop", a, Null, TRUE)
  /\ UNCHANGED <<mac, cf, nobj, fontMgr, fontCollection1, ub, mt>>

\* The caller's SkFont value goes out of scope.
sk_font_drop ==
  /\ Running
  /\ \E a \in Addr :
       /\ caller[a] = "val"
       /\ heap' = Destroy(heap, a)
       /\ liveData' = liveData - FreedData(heap, heap')
       /\ caller' = [caller EXCEPT ![a] = "dropped"]
       /\ last' = Call("sk_font_drop", a, Null, TRUE)
  /\ UNCHANGED <<mac, cf, nobj, fontMgr, fontCollection1, ub, mt>>

\* The release operation of each kind of handle the shim gives out.
ReleaseOp(kind) ==
  CASE kind = "ParagraphBuilder" -> "paragraph_builder_unref"
    [] kind = "Paragraph" -> "paragraph_unref"
    [] OTHER -> "none"

\* A call outside the contract: a released raw handle is released again or
\* used again.  The object is gone; what the process does next is undefined,
\* so the run ends here with the violation recorded.
release_again ==
  /\ Running
  /\ \E a \in Addr :
       /\ caller[a] = "released"
       /\ last' = Call(ReleaseOp(heap[a].kind), a, Null, TRUE)
  /\ ub' = "double-release"
  /\ UNCHANGED <<mac, cf, heap, nobj, liveData, fontMgr, fontCollection1, caller, mt>>

use_after_release ==
  /\ Running
  /\ \E a \in Addr :
       /\ caller[a] = "released"
       /\ last' = Call(IF heap[a].kind = "Paragraph" THEN "paragraph_layout"
                       ELSE "paragraph_builder_add_text", a, Null, TRUE)
  /\ ub' = "use-after-release"
  /\ UNCHANGED <<mac, cf, heap, nobj, liveData, fontMgr, fontCollection1, caller, mt>>

\* ------------------------------------------------------------- threads
\* paragraph_builder_new statement by statement, run by the caller's threads.
\* sync: the caller serializes its calls with a lock of its own (lock: the
\* thread holding it, or 0).  pc: the statement each thread runs next.  old,
\* ptr: the thread's locals (sk_sp::reset's oldPtr, the builder made).
Threads == 1..2

Threaded(sync) ==
  [sync |-> sync, lock |-> 0,
   pc |-> [t \in Threads |-> "idle"],
   old |-> [t \in Threads |-> Null],
   ptr |-> [t \in Threads |-> Null]]

\* ------------------------------------------------------------- macOS: system fonts
kWeightTag == "wght"
kSFProDisplayBreakPoint == 29
kSFProDisplayName == "CupertinoSystemDisplay"
kNormalWeightValue == 400

\* for (int i = 0; i < 8; i++) { font_weight = i * 100; ... }, then the two
\* values CoreText maps to the weights 800 and 900.
LoopStart == 0
LoopEnd == 8
WeightStep == 100
Weight800Value == 780
Weight900Value == 810

\* The weights a caller may ask MatchSystemUIFont for: the hundreds up to
\* MaxWeightStep hundred, and the two values above.
MaxWeightStep == 9
WeightValues ==
  {i * WeightStep : i \in 0..MaxWeightStep} \cup {Weight800Value, Weight900Value}

\* Font sizes: below and at the break point where the system font changes.
SmallSize == 17
Sizes == {SmallSize, kSFProDisplayBreakPoint}

\* A CFDictionary, as its set of <<key, value>> entries.
CFDictionaryCreateMutable == {}
CFDictionarySetValue(dict, key, value) ==
  {e \in dict : e[1] # key} \cup {<<key, value>>}

\* CTFontCreateUIFontForLanguage(kCTFontUIFontSystem, size, nullptr)
CTFontCreateUIFontForLanguage(size) ==
  [size |-> size, copy |-> FALSE, variations |-> {}]

\* CTFontCreateCopyWithAttributes(ct_font, size, nullptr, var_font_desc), the
\* descriptor's one attribute being kCTFontVariationAttribute.
CTFontCreateCopyWithAttributes(ct_font, size, variations) ==
  [size |-> size, copy |-> TRUE, variations |-> variations]

\* The lambda add_axis_to_variations.
add_axis_to_variations(variations, tag, desired_value, normal_value) ==
  IF desired_value # normal_value
    THEN CFDictionarySetValue(variations, tag, desired_value)
    ELSE variations

\* Variant: no early return for the normal weight.
MatchSystemUIFontCopies(desired_weight, size) ==
  CTFontCreateCopyWithAttributes(
    CTFontCreateUIFontForLanguage(size), size,
    add_axis_to_variations(CFDictionaryCreateMutable, kWeightTag,
                           desired_weight, kNormalWeightValue))

MatchSystemUIFont(desired_weight, size) ==
  LET ct_font == CTFontCreateUIFontForLanguage(size)
  IN IF desired_weight = kNormalWeightValue
       THEN ct_font
       ELSE CTFontCreateCopyWithAttributes(
              ct_font, size,
              add_axis_to_variations(CFDictionaryCreateMutable, kWeightTag,
                                     desired_weight, kNormalWeightValue))

\* SkMakeTypefaceFromCTFont: a typeface for the font, or null.
SkMakeTypefaceFromCTFont(font, ok) == [ok |-> ok, font |-> font]

\* The provider: the weights requested of MatchSystemUIFont so far, in order,
\* and the typefaces registered, each under its family name.
\* The lambda register_weighted_font; missing: the weights for which the
\* typeface comes back null.
register_weighted_font(m, weight, missing) ==
  LET large_system_font_weighted ==
        SkMakeTypefaceFromCTFont(
          MatchSystemUIFont(weight, kSFProDisplayBreakPoint),
          weight \notin missing)
  IN [requested |-> Append(m.requested, weight),
      registered |->
        IF large_system_font_weighted.ok
          THEN Append(m.registered,
                      [family |-> kSFProDisplayName,
                       typeface |-> large_system_font_weighted.font])
          ELSE m.registered]

RECURSIVE RegisterLoop(_, _, _)
RegisterLoop(i, m, missing) ==
  IF i < LoopEnd
    THEN RegisterLoop(i + 1,
                      register_weighted_font(m, i * WeightStep, missing),
                      missing)
    ELSE m

RegisterSystemFonts_impl(m, missing) ==
  register_weighted_font(
    register_weighted_font(RegisterLoop(LoopStart, m, missing),
                           Weight800Value, missing),
    Weight900Value, missing)

NoResult == [weight |-> kNormalWeightValue, size |-> SmallSize, called |-> FALSE,
             font |-> CTFontCreateUIFontForLanguage(SmallSize)]

MacInit ==
  [requested |-> <<>>, registered |-> <<>>, done |-> FALSE, result |-> NoResult]

\* RegisterSystemFonts(dynamic_font_manager), called once on a provider.
RegisterSystemFonts ==
  /\ Running
  /\ ~mac.done
  /\ \E missing \in SUBSET WeightValues :
       LET m == RegisterSystemFonts_impl(
                  [requested |-> mac.requested, registered |-> mac.registered],
                  missing)
       IN mac' = [mac EXCEPT !.requested = m.requested,
                             !.registered = m.registered,
                             !.done = TRUE]
  /\ UNCHANGED <<heap, nobj, liveData, fontMgr, fontCollection1, caller, last,
                 ub, mt, cf>>

\* A call of MatchSystemUIFont(desired_weight, size).
match_system_ui_font ==
  /\ Running
  /\ \E desired_weight \in WeightValues, size \in Sizes :
       mac' = [mac EXCEPT !.result =
                 [weight |-> desired_weight, size |-> size, called |-> TRUE,
                  font |-> MatchSystemUIFont(desired_weight, size)]]
  /\ UNCHANGED <<heap, nobj, liveData, fontMgr, fontCollection1, caller, last,
                 ub, mt, cf>>

NextFonts ==
  \/ RegisterSystemFonts
  \/ match_system_ui_font

\* ------------------------------------------------------------- macOS: CFRef
\* CoreFoundation objects and CFRef<T> wrappers.
\* rc: the object's retain count (0 with made: deallocated).  loose: the
\* references the surrounding code owns as raw pointers (from a Create call or
\* from Release()).  inst: each wrapper's instance_.  st: unborn, live, dead.
\* acct: the references the wrappers have taken (adopted or retained) less
\* the ones they gave back (CFRelease, Release()).  lent: Reset was handed a
\* pointer that carried no reference of its own.  op: the operation that led
\* to this state.  err: CFRelease or CFRetain reached a deallocated object.
MaxCF == 2
MaxWrappers == 2
CFObjects == 1..MaxCF
Wrappers == 1..MaxWrappers

CFOp(name, a, b, x) == [name |-> name, a |-> a, b |-> b, x |-> x]

CFInit ==
  [rc |-> [o \in CFObjects |-> 0],
   made |-> [o \in CFObjects |-> FALSE],
   loose |-> [o \in CFObjects |-> 0],
   acct |-> [o \in CFObjects |-> 0],
   inst |-> [w \in Wrappers |-> Null],
   st |-> [w \in Wrappers |-> "unborn"],
   lent |-> FALSE,
   op |-> CFOp("init", Null, Null, Null),
   err |-> "none"]

CFRunning == Running /\ cf.err = "none"

\* Variant: the copy constructor takes the pointer without retaining.
CFRetainNothing(c, o) == c

\* CFRetain(instance_) in the copy constructor.
CFRetain(c, o) ==
  IF c.rc[o] = 0
    THEN [c EXCEPT !.err = "use-after-free", !.acct[o] = @ + 1]
    ELSE [c EXCEPT !.rc[o] = @ + 1, !.acct[o] = @ + 1]

\* CFRelease(instance_) in the destructor and in Reset.
CFRelease(c, o) ==
  IF c.rc[o] = 0
    THEN [c EXCEPT !.err = "over-release", !.acct[o] = @ - 1]
    ELSE [c EXCEPT !.rc[o] = @ - 1, !.acct[o] = @ - 1]

\* void Reset(T instance = nullptr)
CFRefReset(c, w, instance) ==
  [(IF c.inst[w] # Null THEN CFRelease(c, c.inst[w]) ELSE c)
     EXCEPT !.inst[w] = instance,
            !.acct = IF instance = Null THEN @
                     ELSE [@ EXCEPT ![instance] = @ + 1]]

\* T Release(): the pointer, with the wrapper emptied.
CFRefRelease(c, w) ==
  [c |-> [c EXCEPT !.inst[w] = Null,
                   !.acct = IF c.inst[w] = Null THEN @
                            ELSE [@ EXCEPT ![c.inst[w]] = @ - 1]],
   instance |-> c.inst[w]]

\* CFRef &operator=(CFRef &&other) { Reset(other.Release()); }
CFRefMoveAssign(c, w, other) ==
  LET r == CFRefRelease(c, other)
  IN CFRefReset(r.c, w, r.instance)

\* A Create call of CoreFoundation: a new object, its one reference owned by
\* the code that called.
cf_create ==
  /\ CFRunning
  /\ \E o \in CFObjects :
       /\ ~cf.made[o]
       /\ cf' = [cf EXCEPT !.made[o] = TRUE, !.rc[o] = 1, !.loose[o] = 1,
                           !.op = CFOp("create", Null, Null, o)]
  /\ UNCHANGED <<heap, nobj, liveData, fontMgr, fontCollection1, caller, last,
                 ub, mt, mac>>

\* CFRef() : instance_(nullptr)
cfref_default ==
  /\ CFRunning
  /\ \E w \in Wrappers :
       /\ cf.st[w] = "unborn"
       /\ cf' = [cf EXCEPT !.st[w] = "live", !.inst[w] = Null,
                           !.op = CFOp("default", w, Null, Null)]
  /\ UNCHANGED <<heap, nobj, liveData, fontMgr, fontCollection1, caller, last,
                 ub, mt, mac>>

\* CFRef(T instance) : instance_(instance), adopting a reference the code owns.
cfref_adopt ==
  /\ CFRunning
  /\ \E w \in Wrappers, instance \in CFObjects :
       /\ cf.st[w] = "unborn"
       /\ cf.loose[instance] > 0
       /\ cf' = [cf EXCEPT !.st[w] = "live", !.inst[w] = instance,
                           !.loose[instance] = @ - 1,
                           !.acct[instance] = @ + 1,
                           !.op = CFOp("adopt", w, Null, instance)]
  /\ UNCHANGED <<heap, nobj, liveData, fontMgr, fontCollection1, caller, last,
                 ub, mt, mac>>

\* CFRef(const CFRef &other)
cfref_copy ==
  /\ CFRunning
  /\ \E w \in Wrappers, other \in Wrappers :
       /\ cf.st[w] = "unborn" /\ cf.st[other] = "live"
       /\ LET c == IF cf.inst[other] # Null
                     THEN CFRetain(cf, cf.inst[other]) ELSE cf
          IN cf' = [c EXCEPT !.st[w] = "live", !.inst[w] = cf.inst[other],
                             !.op = CFOp("copy", w, other, cf.inst[other])]
  /\ UNCHANGED <<heap, nobj, liveData, fontMgr, fontCollection1, caller, last,
                 ub, mt, mac>>

\* CFRef(CFRef &&other)
cfref_move ==
  /\ CFRunning
  /\ \E w \in Wrappers, other \in Wrappers :
       /\ cf.st[w] = "unborn" /\ cf.st[other] = "live"
       /\ cf' = [cf EXCEPT !.st[w] = "live", !.inst[w] = cf.inst[other],
                           !.inst[other] = Null,
                           !.op = CFOp("move", w, other, cf.inst[other])]
  /\ UNCHANGED <<heap, nobj, liveData, fontMgr, fontCollection1, caller, last,
                 ub, mt, mac>>

\* a = std::move(b), a and b any live wrappers, the same one included.
cfref_move_assign ==
  /\ CFRunning
  /\ \E w \in Wrappers, other \in Wrappers :
       /\ cf.st[w] = "live" /\ cf.st[other] = "live"
       /\ cf' = [CFRefMoveAssign(cf, w, other)
                   EXCEPT !.op = CFOp("move_assign", w, other, cf.inst[other])]
  /\ UNCHANGED <<heap, nobj, liveData, fontMgr, fontCollection1, caller, last,
                 ub, mt, mac>>

\* ~CFRef()
cfref_destroy ==
  /\ CFRunning
  /\ \E w \in Wrappers :
       /\ cf.st[w] = "live"
       /\ LET c == IF cf.inst[w] # Null THEN CFRelease(cf, cf.inst[w]) ELSE cf
          IN cf' = [c EXCEPT !.st[w] = "dead", !.inst[w] = Null,
                             !.op = CFOp("destroy", w, Null, cf.inst[w])]
  /\ UNCHANGED <<heap, nobj, liveData, fontMgr, fontCollection1, caller, last,
                 ub, mt, mac>>

\* a.Reset(instance) with null or with a reference the code owns.
cfref_reset ==
  /\ CFRunning
  /\ \E w \in Wrappers, instance \in CFObjects \cup {Null} :
       /\ cf.st[w] = "live"
       /\ instance # Null => cf.loose[instance] > 0
       /\ cf' = [CFRefReset(cf, w, instance)
                   EXCEPT !.loose = IF instance = Null THEN @
                                    ELSE [@ EXCEPT ![instance] = @ - 1],
                          !.op = CFOp("reset", w, Null, instance)]
  /\ UNCHANGED <<heap, nobj, liveData, fontMgr, fontCollection1, caller, last,
                 ub, mt, mac>>

\* a.Reset(a): the pointer handed in is the one the wrapper holds, read
\* through operator T(), which returns it without a reference.
cfref_reset_same ==
  /\ CFRunning
  /\ \E w \in Wrappers :
       /\ cf.st[w] = "live"
       /\ cf.inst[w] # Null
       /\ cf' = [CFRefReset(cf, w, cf.inst[w])
                   EXCEPT !.lent = TRUE,
                          !.op = CFOp("reset", w, Null, cf.inst[w])]
  /\ UNCHANGED <<heap, nobj, liveData, fontMgr, fontCollection1, caller, last,
                 ub, mt, mac>>

\* T raw = a.Release(): the code owns the reference from here on.
cfref_release ==
  /\ CFRunning
  /\ \E w \in Wrappers :
       /\ cf.st[w] = "live"
       /\ LET r == CFRefRelease(cf, w)
          IN cf' = [r.c EXCEPT !.loose = IF r.instance = Null THEN @
                                         ELSE [@ EXCEPT ![r.instance] = @ + 1],
                               !.op = CFOp("release", w, Null, r.instance)]
  /\ UNCHANGED <<heap, nobj, liveData, fontMgr, fontCollection1, caller, last,
                 ub, mt, mac>>

NextCFRef ==
  \/ cf_create
  \/ cfref_default
  \/ cfref_adopt
  \/ cfref_copy
  \/ cfref_move
  \/ cfref_move_assign
  \/ cfref_destroy
  \/ cfref_reset
  \/ cfref_reset_same
  \/ cfref_release

\* ------------------------------------------------------------- specification
\* The state after static initialization: fontMgr holds the platform font
\* manager, fontCollection1 a font collection with no default font manager yet.
\* The caller holds one surface, which it made itself: the shim has no surface
\* factory, only sk_surface_get_canvas.
InitShim ==
  /\ heap = [a \in Addr |->
               IF a = FontMgrAddr THEN Object("SkFontMgr", 1, Null)
               ELSE IF a = FontCollection1Addr THEN Object("FontCollection", 1, Null)
               ELSE IF a = SurfaceAddr THEN Object("SkSurface", 1, Null)
               ELSE NoObject]
  /\ nobj = SurfaceAddr
  /\ liveData = 0
  /\ fontMgr = FontMgrAddr
  /\ fontCollection1 = FontCollection1Addr
  /\ caller = [a \in Addr |-> IF a = SurfaceAddr THEN "sp" ELSE "none"]
  /\ last = Call("init", Null, Null, TRUE)
  /\ ub = "none"
  /\ mac = MacInit
  /\ cf = CFInit

Init == InitShim /\ mt = Threaded(TRUE)

\* The ownership side: every factory, every release, and the calls that
\* borrow a reference-counted argument.
Next ==
  \/ paragraph_builder_new
  \/ paragraph_builder_build
  \/ paragraph_builder_unref
  \/ paragraph_unref
  \/ paragraph_paint
  \/ sk_fontcollection_new
  \/ sk_typeface_create_from_data
  \/ sk_animated_image_create
  \/ sk_animated_image_get_current_frame
  \/ sk_surface_get_canvas
  \/ gr_direct_context_make_gl
  \/ gr_direct_context_unwrap
  \/ color_space_new_srgb
  \/ sk_font_new
  \/ sk_text_blob_make_from_glyphs
  \/ sk_canvas_draw_image
  \/ sk_canvas_draw_image_rect
  \/ sk_canvas_draw_image_nine
  \/ sk_canvas_draw_text_blob
  \/ sk_sp_drop
  \/ sk_font_drop
  \/ release_again
  \/ use_after_release

Spec == Init /\ [][Next]_vars

\* The paragraph side: builders and paragraphs, with every call on them.
ParagraphSide == nobj < SurfaceAddr + MaxPar

NextParagraph ==
  \/ ParagraphSide /\ paragraph_builder_new
  \/ ParagraphSide /\ paragraph_builder_build
  \/ paragraph_builder_unref
  \/ paragraph_unref
  \/ paragraph_builder_add_text
  \/ paragraph_builder_push_style
  \/ paragraph_builder_pop
  \/ paragraph_layout
  \/ paragraph_paint
  \/ paragraph_get_line_metrics_at
  \/ paragraph_get_line_number_at
  \/ paragraph_get_glyph_info_at
  \/ paragraph_get_closest_glyph_info_at
  \/ paragraph_get_glyph_position_at_coordinate
  \/ release_again
  \/ use_after_release

SpecParagraph == Init /\ [][NextParagraph]_vars

SpecFonts == Init /\ [][NextFonts]_vars

SpecCFRef == Init /\ [][NextCFRef]_vars
\* ------------------------------------------------------------- the steps of a thread
InCall(t) == mt.pc[t] # "idle"

\* Variant: paragraph_builder_new takes a mutex of the shim's on entry.
EntryGuardMutex(t) == \A u \in Threads : ~InCall(u)

\* What paragraph_builder_new waits for before it touches fontCollection1:
\* nothing, it takes no lock.
EntryGuard(t) == TRUE

\* The thread calls paragraph_builder_new (after taking the caller's lock, when
\* the caller serializes).
t_call(t) ==
  /\ Running
  /\ mt.pc[t] = "idle"
  /\ nobj + Cardinality({u \in Threads : InCall(u)}) < NAddr
  /\ mt.sync => mt.lock = 0
  /\ EntryGuard(t)
  /\ mt' = [mt EXCEPT !.pc[t] = "copy", !.lock = IF mt.sync THEN t ELSE 0]
  /\ UNCHANGED <<mac, cf, heap, nobj, liveData, fontMgr, fontCollection1, caller, last, ub>>

\* Line 27, the argument: a copy of fontMgr, one more reference (atomic).
t_copy(t) ==
  /\ Running
  /\ mt.pc[t] = "copy"
  /\ heap' = SkSpCopy(heap, fontMgr)
  /\ mt' = [mt EXCEPT !.pc[t] = "read"]
  /\ UNCHANGED <<mac, cf, nobj, liveData, fontMgr, fontCollection1, caller, last, ub>>

\* Line 27, fDefaultFontManager = std::move(fontManager), sk_sp::reset:
\* T* oldPtr = fPtr;
t_read(t) ==
  /\ Running
  /\ mt.pc[t] = "read"
  /\ mt' = [mt EXCEPT !.pc[t] = "write", !.old[t] = heap[fontCollection1].holds]
  /\ UNCHANGED <<mac, cf, heap, nobj, liveData, fontMgr, fontCollection1, caller, last, ub>>

\* A thread between its read of fPtr and its store to it; a thread about to
\* read or store fPtr.
Writing(t) == mt.pc[t] = "write"
Accessing(t) == mt.pc[t] \in {"read", "write"}

\* A data race on fDefaultFontManager: a thread about to store to it while
\* another is about to read it or store to it.
DataRace == \E t, u \in Threads : t # u /\ Writing(t) /\ Accessing(u)

\* Both threads in the store at once.
Race == \E t, u \in Threads : t # u /\ Writing(t) /\ Writing(u)

\* fPtr = ptr;  A store that races with another thread's access is undefined
\* behaviour: the run ends with the race recorded.
t_write(t) ==
  /\ Running
  /\ mt.pc[t] = "write"
  /\ IF \E u \in Threads : u # t /\ Accessing(u)
       THEN /\ ub' = "data-race"
            /\ UNCHANGED <<mac, cf, heap, mt>>
       ELSE /\ heap' = [heap EXCEPT ![fontCollection1].holds = fontMgr]
            /\ mt' = [mt EXCEPT !.pc[t] = "unref"]
            /\ UNCHANGED ub
  /\ UNCHANGED <<mac, cf, nobj, liveData, fontMgr, fontCollection1, caller, last>>

\* SkSafeUnref(oldPtr);
t_unref(t) ==
  /\ Running
  /\ mt.pc[t] = "unref"
  /\ heap' = Unref(heap, mt.old[t])
  /\ mt' = [mt EXCEPT !.pc[t] = "make", !.old[t] = Null]
  /\ UNCHANGED <<mac, cf, nobj, liveData, fontMgr, fontCollection1, caller, last, ub>>

\* Line 29: auto result = ParagraphBuilder::make(style, fontCollection1);
t_make(t) ==
  /\ Running
  /\ mt.pc[t] = "make"
  /\ \E ok \in BOOLEAN :
       LET r == ParagraphBuilderMake(SkSpCopy(heap, fontCollection1), nobj,
                                     fontCollection1, ok)
       IN /\ heap' = r.heap
          /\ nobj' = r.nobj
          /\ mt' = [mt EXCEPT !.pc[t] = "return", !.ptr[t] = r.ptr]
  /\ UNCHANGED <<mac, cf, liveData, fontMgr, fontCollection1, caller, last, ub>>

\* Lines 31-32: result.release(), return; the caller then gives up its lock.
t_return(t) ==
  /\ Running
  /\ mt.pc[t] = "return"
  /\ LET result2 == UniquePtrRelease(mt.ptr[t])
     IN /\ heap' = UniquePtrScopeExit(heap, result2.left)
        /\ caller' = Give(result2.raw, "raw")
        /\ last' = Call("paragraph_builder_new", Null, result2.raw,
                        result2.raw # Null)
  /\ mt' = [mt EXCEPT !.pc[t] = "idle", !.ptr[t] = Null, !.lock = 0]
  /\ UNCHANGED <<mac, cf, nobj, liveData, fontMgr, fontCollection1, ub>>

InitThreads == InitShim /\ \E sync \in BOOLEAN : mt = Threaded(sync)

NextThreads ==
  \E t \in Threads :
    \/ t_call(t)
    \/ t_copy(t)
    \/ t_read(t)
    \/ t_write(t)
    \/ t_unref(t)
    \/ t_make(t)
    \/ t_return(t)

SpecThreads == InitThreads /\ [][NextThreads]_vars
\* ------------------------------------------------------------- properties
RawKinds == {"ParagraphBuilder", "Paragraph"}
CountedKinds ==
  {"FontCollection", "SkTypeface", "SkAnimatedImage", "GrDirectContext",
   "SkColorSpace"}
FactoryOps ==
  {"paragraph_builder_new", "paragraph_builder_build", "sk_fontcollection_new",
   "sk_typeface_create_from_data", "sk_animated_image_create",
   "gr_direct_context_make_gl", "color_space_new_srgb"}

Held(a) == caller[a] \in {"raw", "sp"}
ShimHolds(a) == a \in {fontMgr, fontCollection1}

\* The references to a that exist: the caller's sk_sp, the objects that keep
\* one, the shim's globals, and the engine's own for its sRGB object.
Holders(a) ==
  (IF caller[a] = "sp" THEN 1 ELSE 0)
  + Cardinality({b \in Addr : heap[b].alive /\ heap[b].holds = a})
  + (IF a = fontMgr THEN 1 ELSE 0)
  + (IF a = fontCollection1 THEN 1 ELSE 0)
  + (IF heap[a].kind = "SkColorSpace" THEN 1 ELSE 0)

\* C1 (as amended): a handle a factory has returned names a live object the
\* shim keeps no reference to.  paragraph_builder_new and
\* paragraph_builder_build return it detached, as a raw pointer to an object
\* that is not reference counted; the five other factories return the engine's
\* sk_sp itself, and the object's count is exactly the references that exist,
\* the caller's among them and none of the shim's.
C1_FactoryHandsOver ==
  \A a \in Addr :
    (Held(a) /\ heap[a].kind \in RawKinds \cup CountedKinds) =>
      /\ heap[a].alive
      /\ ~ShimHolds(a)
      /\ heap[a].kind \in RawKinds => caller[a] = "raw" /\ heap[a].rc = 0
      /\ heap[a].kind \in CountedKinds =>
           caller[a] = "sp" /\ heap[a].rc >= 1 /\ heap[a].rc = Holders(a)

\* C1 witness: a factory has just returned a counted handle while the caller
\* also holds a raw one.
C1_Witness ==
  /\ last.op = "sk_animated_image_create" /\ last.ret # Null
  /\ \E b \in Addr : caller[b] = "raw" /\ heap[b].kind = "ParagraphBuilder"

\* C1 as stated: every factory detaches the engine's smart pointer, leaving
\* no reference counting for the object.
C1_AllDetached ==
  \A a \in Addr :
    (Held(a) /\ heap[a].kind \in RawKinds \cup CountedKinds) =>
      caller[a] = "raw" /\ heap[a].rc = 0

\* C2 (as amended): a factory call the engine fails returns null, and nothing
\* the call allocated exists afterwards: as many objects and buffers are alive
\* as before it.
C2_FailureLeavesNothing ==
  (last.op \in FactoryOps /\ ~last.ok) =>
    /\ last.ret = Null
    /\ Live(heap) + liveData = last.live0
    /\ liveData = Cardinality({a \in Addr : heap[a].alive /\ heap[a].data = 1})

\* C2 witness: sk_animated_image_create has failed on a buffer that is not empty.
C2_Witness ==
  /\ last.op = "sk_animated_image_create" /\ ~last.ok /\ last.allocs = 1
  /\ last.ret = Null

\* C2 as stated: the failed call performed no allocation.
C2_NoAllocation ==
  (last.op \in FactoryOps /\ ~last.ok) => last.ret = Null /\ last.allocs = 0

\* C3 (as amended): builders and paragraphs, the two raw handle types, each
\* have a release operation, and a handle of theirs is live until it is
\* released and destroyed from then on; the run is in violation only after a
\* released handle was released or used again.  The other factory results have
\* no release operation of the shim: the caller's sk_sp releases them, and one
\* still alive after that is kept by another object.
C3_ReleaseOnce ==
  /\ \A a \in Addr :
       heap[a].kind \in RawKinds =>
         /\ ReleaseOp(heap[a].kind) # "none"
         /\ caller[a] \in {"raw", "released"}
         /\ heap[a].alive <=> caller[a] = "raw"
  /\ \A a \in Addr :
       heap[a].kind \in CountedKinds /\ caller[a] # "none" =>
         /\ ReleaseOp(heap[a].kind) = "none"
         /\ caller[a] \in {"sp", "dropped"}
         /\ heap[a].alive <=> Holders(a) > 0
  /\ ub # "none" => caller[last.arg] = "released" /\ ~heap[last.arg].alive

\* C3 witness: a builder and the paragraph built from it, each released once,
\* with no violation.
C3_Witness ==
  /\ ub = "none"
  /\ \E a, b \in Addr :
       /\ heap[a].kind = "ParagraphBuilder" /\ caller[a] = "released"
       /\ heap[b].kind = "Paragraph" /\ caller[b] = "released"
       /\ ~heap[a].alive /\ ~heap[b].alive

\* C3 as stated: every handle type a factory returns has a release operation.
C3_EveryTypeHasRelease ==
  \A a \in Addr :
    (Held(a) /\ heap[a].kind \in RawKinds \cup CountedKinds) =>
      ReleaseOp(heap[a].kind) # "none"

\* C4: every builder was made with the one font collection fontCollection1,
\* the object created at load time, and once a builder has been made that
\* collection's default font manager is fontMgr.
C4_OneCollectionForBuilders ==
  /\ fontCollection1 = FontCollection1Addr
  /\ fontMgr = FontMgrAddr
  /\ \A b \in Addr :
       heap[b].kind = "ParagraphBuilder" =>
         /\ heap[b].holds = fontCollection1
         /\ heap[fontCollection1].holds = fontMgr

\* C4 witness: a second builder made after the first was released.
C4_Witness ==
  \E a, b \in Addr :
    /\ a < b
    /\ heap[a].kind = "ParagraphBuilder" /\ caller[a] = "released"
    /\ heap[b].kind = "ParagraphBuilder" /\ caller[b] = "raw"
    /\ last.op = "paragraph_builder_new" /\ last.ret = b

\* C5 (as amended): there is one font manager per process and every font
\* collection the shim configures has it as its default (fontCollection1 from
\* the first paragraph_builder_new on); every builder and
\* paragraph uses the one collection fontCollection1; sk_fontcollection_new
\* returns a new font collection on every call.
C5_OneFontManager ==
  /\ {a \in Addr : heap[a].kind = "SkFontMgr"} = {fontMgr}
  /\ \A c \in Addr :
       (heap[c].kind = "FontCollection" /\ c # fontCollection1) =>
         heap[c].holds = fontMgr
  /\ heap[fontCollection1].holds \in {Null, fontMgr}
  /\ (\E b \in Addr : heap[b].kind = "ParagraphBuilder") =>
       heap[fontCollection1].holds = fontMgr
  /\ \A b \in Addr :
       heap[b].kind \in RawKinds => heap[b].holds = fontCollection1
  /\ last.op = "sk_fontcollection_new" =>
       /\ last.ret # fontCollection1
       /\ heap[last.ret].kind = "FontCollection"
       /\ heap[last.ret].rc = 1

\* C5 witness: the caller holds a font collection of its own beside a builder.
C5_Witness ==
  \E c, b \in Addr :
    /\ c # fontCollection1
    /\ heap[c].kind = "FontCollection" /\ caller[c] = "sp"
    /\ heap[b].kind = "ParagraphBuilder" /\ caller[b] = "raw"

\* C5 as stated: no shim operation creates a second font collection.
C5_OneCollection ==
  Cardinality({a \in Addr : heap[a].kind = "FontCollection"}) <= 1

\* C6: while the caller keeps to the handle contract, the global font
\* collection and font manager are the objects created at load time, alive,
\* and counted once for the shim's own reference beside one for each object
\* that keeps them.
C6_GlobalsStayAlive ==
  Running =>
    /\ fontCollection1 = FontCollection1Addr
    /\ fontMgr = FontMgrAddr
    /\ heap[fontCollection1].alive /\ heap[fontCollection1].kind = "FontCollection"
    /\ heap[fontMgr].alive /\ heap[fontMgr].kind = "SkFontMgr"
    /\ heap[fontCollection1].rc = Holders(fontCollection1)
    /\ heap[fontMgr].rc = Holders(fontMgr)
    /\ heap[fontCollection1].rc >= 1 /\ heap[fontMgr].rc >= 1

\* C6 witness: builders and a paragraph were made and all of them released.
C6_Witness ==
  /\ Running
  /\ \E a, b \in Addr :
       /\ heap[a].kind = "ParagraphBuilder" /\ caller[a] = "released"
       /\ heap[b].kind = "Paragraph" /\ caller[b] = "released"
  /\ \A a \in Addr : heap[a].kind \in RawKinds => caller[a] = "released"
  /\ heap[fontCollection1].rc = 1

DrawOps ==
  {"sk_canvas_draw_image", "sk_canvas_draw_image_rect",
   "sk_canvas_draw_image_nine", "sk_canvas_draw_text_blob"}

\* The reference-counted object a call borrowed: the image or blob drawn, the
\* typeface of sk_font_new, the surface of the canvas painted on.
Borrowed == IF last.op = "paragraph_paint" THEN SurfaceAddr ELSE last.arg

\* C7 (as amended): the shim keeps no reference to a borrowed argument.  The
\* draw calls and paragraph_paint leave its count as it was.  sk_font_new
\* copies the typeface's sk_sp into the SkFont it returns: the count is one
\* more than before and the font holds the typeface.
C7_BorrowedCounts ==
  /\ last.op \in DrawOps \cup {"paragraph_paint"} =>
       /\ heap[Borrowed].rc = last.rc0
       /\ ~ShimHolds(Borrowed)
  /\ last.op = "sk_font_new" =>
       /\ heap[last.arg].rc = last.rc0 + 1
       /\ heap[last.ret].holds = last.arg
       /\ heap[last.arg].rc = Holders(last.arg)
       /\ ~ShimHolds(last.arg)

\* C7 witness: sk_font_new has returned a font for a typeface the caller holds.
C7_Witness ==
  /\ last.op = "sk_font_new"
  /\ caller[last.arg] = "sp"
  /\ heap[last.arg].rc = 2

\* C7 as stated: after every borrowing call the argument's count is what it
\* was before the call.
C7_CountUnchanged ==
  last.op \in DrawOps \cup {"paragraph_paint", "sk_font_new"} =>
    heap[Borrowed].rc = last.rc0
BorrowOnlyOps ==
  {"paragraph_builder_add_text", "paragraph_builder_push_style",
   "paragraph_builder_pop", "paragraph_layout", "paragraph_paint",
   "paragraph_get_line_metrics_at", "paragraph_get_line_number_at",
   "paragraph_get_glyph_info_at", "paragraph_get_closest_glyph_info_at",
   "paragraph_get_glyph_position_at_coordinate"}

\* C8: a borrow-only call on a live builder or paragraph changes no handle and
\* no object's life or count, and a raw handle stops being live only by its own
\* release operation, called on it.
C8_BorrowKeepsOwnership ==
  /\ [][(last'.op \in BorrowOnlyOps /\ ub' = "none") =>
          /\ caller' = caller
          /\ caller[last'.arg] = "raw" /\ heap'[last'.arg].alive
          /\ \A a \in Addr :
               /\ heap'[a].alive = heap[a].alive
               /\ heap'[a].rc = heap[a].rc
               /\ heap'[a].holds = heap[a].holds]_vars
  /\ [][\A a \in Addr :
          (caller[a] = "raw" /\ caller'[a] # "raw") =>
            /\ caller'[a] = "released"
            /\ last'.op = ReleaseOp(heap[a].kind)
            /\ last'.arg = a]_vars

\* C8 witness: a paragraph that was laid out has just been painted and its
\* handle is still live, and so is the handle of the builder it came from,
\* which has text.
C8_Witness ==
  /\ last.op = "paragraph_paint"
  /\ heap[last.arg].laidOut /\ heap[last.arg].lines > 0
  /\ caller[last.arg] = "raw" /\ heap[last.arg].alive
  /\ \E b \in Addr :
       /\ heap[b].kind = "ParagraphBuilder" /\ heap[b].text > 0
       /\ caller[b] = "raw" /\ heap[b].alive

QueryOps ==
  {"paragraph_get_line_metrics_at", "paragraph_get_line_number_at",
   "paragraph_get_glyph_info_at", "paragraph_get_closest_glyph_info_at",
   "paragraph_get_glyph_position_at_coordinate"}

\* The values a query returns when the engine succeeds.
SuccessValues(op) ==
  CASE op = "paragraph_get_line_metrics_at" ->
         {LineMetricsOf(n) : n \in 0..MaxLines}
    [] op = "paragraph_get_line_number_at" -> 0..MaxLines
    [] op = "paragraph_get_glyph_info_at" -> {TRUE}
    [] op = "paragraph_get_closest_glyph_info_at" -> 0..(MaxText - 1)
    [] op = "paragraph_get_glyph_position_at_coordinate" -> 0..MaxText

\* C9: when the engine reports failure to a query, the value the shim returns
\* is none a successful call returns, so the caller can tell the failure.
C9_FailureVisible ==
  (last.op \in QueryOps /\ ~last.ok) => last.ret \notin SuccessValues(last.op)

\* C10: with the caller serializing its calls no two threads are ever in
\* conflicting accesses to fontCollection1's default font manager; and the shim
\* itself never makes a thread wait: without the caller's lock a thread can
\* enter paragraph_builder_new, and go on to its read and its store of the
\* field, whatever the other thread is doing.
C10_NoLockInShim ==
  /\ mt.sync => ~DataRace /\ ~Race /\ ub = "none"
  /\ (~mt.sync /\ Running) =>
       \A t \in Threads :
         /\ (mt.pc[t] = "idle"
               /\ nobj + Cardinality({u \in Threads : InCall(u)}) < NAddr)
              => ENABLED t_call(t)
         /\ mt.pc[t] = "read" => ENABLED t_read(t)
         /\ mt.pc[t] = "write" => ENABLED t_write(t)

\* C10 witness: without the caller's lock, both threads are in the store to the
\* field at once, on a call that is not the first (a builder exists already).
C10_Witness ==
  /\ ~mt.sync
  /\ Race
  /\ \A t \in Threads : Writing(t)
  /\ \E b \in Addr : heap[b].kind = "ParagraphBuilder" /\ caller[b] = "raw"
BorrowAccessors == {"sk_surface_get_canvas", "gr_direct_context_unwrap"}
HandleAccessors ==
  BorrowAccessors \cup {"sk_animated_image_get_current_frame"}

\* C11 (as amended): sk_surface_get_canvas and gr_direct_context_unwrap return
\* a pointer into the parent, change no count and no handle of the caller, and
\* create nothing.  sk_animated_image_get_current_frame leaves the animated
\* image's count alone but, when it succeeds, returns an sk_sp to a new image:
\* a counted reference the caller owns, to an object that keeps no reference
\* to the animated image; and an image the caller holds is alive whether or
\* not any animated image still is.
C11_AccessorsOwnership ==
  /\ [][last'.op \in BorrowAccessors =>
          /\ last'.ret = last'.arg
          /\ heap[last'.arg].alive
          /\ heap' = heap /\ caller' = caller /\ nobj' = nobj]_vars
  /\ [][last'.op = "sk_animated_image_get_current_frame" =>
          /\ heap'[last'.arg] = heap[last'.arg]
          /\ last'.ret = Null => heap' = heap /\ caller' = caller
          /\ last'.ret # Null =>
               /\ ~heap[last'.ret].alive /\ caller[last'.ret] = "none"
               /\ heap'[last'.ret].alive
               /\ heap'[last'.ret].kind = "SkImage"
               /\ heap'[last'.ret].rc = 1
               /\ heap'[last'.ret].holds = Null
               /\ caller'[last'.ret] = "sp"]_vars
  /\ [](\A a \in Addr :
          (heap[a].kind = "SkImage" /\ caller[a] = "sp" /\ Running) =>
            heap[a].alive /\ heap[a].rc = Holders(a))

\* C11 witness: the caller holds a frame that is alive after the animated
\* image it came from was dropped and destroyed.
C11_Witness ==
  /\ last.op = "sk_sp_drop" /\ heap[last.arg].kind = "SkAnimatedImage"
  /\ ~heap[last.arg].alive
  /\ \A a \in Addr : heap[a].kind = "SkAnimatedImage" => ~heap[a].alive
  /\ \E i \in Addr :
       heap[i].kind = "SkImage" /\ caller[i] = "sp" /\ heap[i].alive

\* C11 as stated: no accessor that returns a handle creates an object or
\* gives the caller a reference to release.
C11_NeverTransfers ==
  [][last'.op \in HandleAccessors => heap' = heap /\ caller' = caller]_vars
\* The weights 100 to 900, by the values that request them.
NineWeights ==
  {i * WeightStep : i \in 1..(LoopEnd - 1)} \cup {Weight800Value, Weight900Value}

\* C12: RegisterSystemFonts requests the large system font once for each of
\* the nine weights 100 to 900 and for no other weight, and registers the
\* typefaces that come back non-null under the name CupertinoSystemDisplay.
C12_NineWeights ==
  mac.done =>
    /\ {mac.requested[k] : k \in DOMAIN mac.requested} = NineWeights
    /\ Len(mac.requested) = Cardinality(NineWeights)
    /\ Len(mac.registered) <= Len(mac.requested)
    /\ \A k \in DOMAIN mac.registered :
         /\ mac.registered[k].family = kSFProDisplayName
         /\ mac.registered[k].typeface.size = kSFProDisplayBreakPoint

\* C13: MatchSystemUIFont(w, size) returns the system UI font of that size
\* unmodified when w is the normal weight, and for every other w a copy of it
\* whose variations have the one entry 'wght' -> w; no font it returns, the
\* ones RegisterSystemFonts registers included, has a variation entry for the
\* normal weight.
C13_MatchSystemUIFont ==
  /\ mac.result.called =>
       LET w == mac.result.weight
           font == mac.result.font
       IN /\ font.size = mac.result.size
          /\ w = kNormalWeightValue =>
               /\ font = CTFontCreateUIFontForLanguage(mac.result.size)
               /\ ~font.copy /\ font.variations = {}
          /\ w # kNormalWeightValue =>
               /\ font.copy
               /\ font.variations = {<<kWeightTag, w>>}
               /\ Cardinality(font.variations) = 1
          /\ <<kWeightTag, kNormalWeightValue>> \notin font.variations
  /\ \A k \in DOMAIN mac.registered :
       LET font == mac.registered[k].typeface
       IN /\ <<kWeightTag, kNormalWeightValue>> \notin font.variations
          /\ font.copy <=> Cardinality(font.variations) = 1

\* C13 witness: a call with another weight has returned a copy with that
\* weight, after a registration that registered the unmodified font (for the
\* normal weight) among others.
C13_Witness ==
  /\ mac.result.called
  /\ mac.result.weight = Weight800Value
  /\ mac.result.font.variations = {<<kWeightTag, Weight800Value>>}
  /\ mac.done
  /\ \E k \in DOMAIN mac.registered : ~mac.registered[k].typeface.copy
  /\ \E k \in DOMAIN mac.registered : mac.registered[k].typeface.copy
\* The live wrappers that hold o.
CFHolders(c, o) == {w \in Wrappers : c.st[w] = "live" /\ c.inst[w] = o}

C15_ReplacementKeepsReference ==
  /\ [][(cf'.op.name = "move_assign" /\ cf' # cf) =>
          LET a == cf'.op.a
              b == cf'.op.b
              old == cf.inst[a]
              x == cf.inst[b]
          IN /\ cf'.inst[a] = x
             /\ a # b => cf'.inst[b] = Null
             /\ \A o \in CFObjects :
                  cf'.rc[o] = IF a # b /\ o = old THEN cf.rc[o] - 1
                              ELSE cf.rc[o]
             /\ x # Null => cf'.rc[x] > 0
             /\ cf'.err = "none"]_vars
  /\ [][(cf'.op.name = "reset" /\ cf' # cf) =>
          LET a == cf'.op.a
              x == cf'.op.x
          IN /\ cf'.inst[a] = x
             /\ x # Null => cf'.rc[x] = cf.rc[x] /\ cf'.rc[x] > 0
             /\ cf'.err = "none"]_vars
====
